---- MODULE Spec2Model ----
(***************************************************************************)
(* Study RAG service: the ingestion pipeline (app/ingest.py), the vector   *)
(* store singleton with its persisted directory (app/vector_store.py) and  *)
(* the query / status / ingest handlers (app/api.py).                      *)
(*                                                                         *)
(* A text is a sequence of one-character strings.  The LangChain           *)
(* RecursiveCharacterTextSplitter, the LangChain FAISS wrapper and the     *)
(* faiss IndexFlatL2 the source calls are modelled by what they do on the  *)
(* calls the source makes.                                                 *)
(***************************************************************************)
EXTENDS Integers, Sequences, FiniteSets, TLC

None == "None"

(***************************************************************************)
(* Text helpers (Python str operations used by the source).                *)
(***************************************************************************)
Rep(c, n) == [i \in 1..n |-> c]

Whitespace == {" ", "\n"}

\* str.strip(): drop leading and trailing whitespace.
Strip(text) ==
    IF \A i \in 1..Len(text) : text[i] \in Whitespace
    THEN <<>>
    ELSE LET first == CHOOSE i \in 1..Len(text) :
                         /\ text[i] \notin Whitespace
                         /\ \A j \in 1..(i - 1) : text[j] \in Whitespace
             last == CHOOSE i \in 1..Len(text) :
                         /\ text[i] \notin Whitespace
                         /\ \A j \in (i + 1)..Len(text) : text[j] \in Whitespace
         IN SubSeq(text, first, last)

\* separator.join(docs), joined by halves.
RECURSIVE Join(_, _)
Join(docs, separator) ==
    IF Len(docs) = 0 THEN <<>>
    ELSE IF Len(docs) = 1 THEN docs[1]
    ELSE LET h == Len(docs) \div 2
         IN Join(SubSeq(docs, 1, h), separator) \o separator
            \o Join(SubSeq(docs, h + 1, Len(docs)), separator)

\* re.search(re.escape(separator), text)
Contains(text, separator) ==
    \E i \in 1..(Len(text) - Len(separator) + 1) :
        SubSeq(text, i, i + Len(separator) - 1) = separator

\* The start positions of the leftmost non-overlapping matches of a
\* separator of length m, at or after position p (re.split scans left to
\* right); cands are all the positions where the separator occurs.
RECURSIVE MatchesFrom(_, _, _)
MatchesFrom(cands, m, p) ==
    LET S == {i \in cands : i >= p}
    IN IF S = {} THEN <<>>
       ELSE LET i == CHOOSE x \in S : \A y \in S : x <= y
            IN <<i>> \o MatchesFrom(cands, m, i + m)

(***************************************************************************)
(* langchain_text_splitters: RecursiveCharacterTextSplitter, as configured *)
(* by _split_text (keep_separator and strip_whitespace are the defaults,   *)
(* True; length_function is len).                                          *)
(***************************************************************************)

\* _split_text_with_regex(text, separator, keep_separator=True): the pieces
\* between the matches, each match kept at the start of the piece that
\* follows it; empty pieces are dropped.  An empty separator gives list(text).
SplitWithRegex(text, separator) ==
    IF separator = <<>>
    THEN [i \in 1..Len(text) |-> <<text[i]>>]
    ELSE LET m == Len(separator)
             cands == {i \in 1..(Len(text) - m + 1) :
                          SubSeq(text, i, i + m - 1) = separator}
             ms == MatchesFrom(cands, m, 1)
             k == Len(ms)
             head == IF k = 0 THEN text ELSE SubSeq(text, 1, ms[1] - 1)
             piece(j) == SubSeq(text, ms[j],
                                IF j = k THEN Len(text) ELSE ms[j + 1] - 1)
             rest == [j \in 1..k |-> piece(j)]
         IN IF head = <<>> THEN rest ELSE <<head>> \o rest

\* TextSplitter._join_docs: join, strip, and None for an empty result.
JoinDocs(docs, separator) ==
    LET text == Strip(Join(docs, separator))
    IN IF text = <<>> THEN None ELSE text

SepLen(cur, separator_len) == IF Len(cur) > 0 THEN separator_len ELSE 0

\* The while loop of _merge_splits: pop pieces off the front of current_doc
\* until what is left fits the overlap and leaves room for the next piece.
\* A loop that pops every piece.
PopAll(cur, total, len, separator_len, chunk_size, chunk_overlap) ==
    [cur |-> <<>>, total |-> 0]

RECURSIVE PopFront(_, _, _, _, _, _)
PopFront(cur, total, len, separator_len, chunk_size, chunk_overlap) ==
    IF \/ total > chunk_overlap
       \/ (total + len + SepLen(cur, separator_len) > chunk_size /\ total > 0)
    THEN PopFront(Tail(cur),
                  total - (Len(cur[1]) + (IF Len(cur) > 1 THEN separator_len ELSE 0)),
                  len, separator_len, chunk_size, chunk_overlap)
    ELSE [cur |-> cur, total |-> total]

\* TextSplitter._merge_splits: the for loop, with its state st = (i, the
\* index of the next piece; docs; current_doc; total).
RECURSIVE MergeFrom(_, _, _, _, _)
MergeFrom(splits, separator, chunk_size, chunk_overlap, st) ==
    IF st.i > Len(splits)
    THEN LET doc == JoinDocs(st.cur, separator)
         IN IF doc = None THEN st.docs ELSE Append(st.docs, doc)
    ELSE LET d == splits[st.i]
             len == Len(d)
             separator_len == Len(separator)
             over == st.total + len + SepLen(st.cur, separator_len) > chunk_size
             flush == over /\ Len(st.cur) > 0
             doc == JoinDocs(st.cur, separator)
             popped == IF flush
                       THEN PopFront(st.cur, st.total, len, separator_len,
                                     chunk_size, chunk_overlap)
                       ELSE [cur |-> st.cur, total |-> st.total]
             cur1 == Append(popped.cur, d)
         IN MergeFrom(splits, separator, chunk_size, chunk_overlap,
                [i |-> st.i + 1,
                 docs |-> IF flush /\ doc # None THEN Append(st.docs, doc)
                          ELSE st.docs,
                 cur |-> cur1,
                 total |-> popped.total + len
                              + (IF Len(cur1) > 1 THEN separator_len ELSE 0)])

MergeSplits(splits, separator, chunk_size, chunk_overlap) ==
    MergeFrom(splits, separator, chunk_size, chunk_overlap,
              [i |-> 1, docs |-> <<>>, cur |-> <<>>, total |-> 0])

\* The separator RecursiveCharacterTextSplitter._split_text picks: the first
\* of the list that is empty or occurs in the text (index into separators).
RECURSIVE PickSeparator(_, _, _)
PickSeparator(text, separators, i) ==
    IF i >= Len(separators) THEN Len(separators)
    ELSE IF separators[i] = <<>> \/ Contains(text, separators[i]) THEN i
    ELSE PickSeparator(text, separators, i + 1)

\* RecursiveCharacterTextSplitter._split_text(text, separators): the pieces
\* shorter than chunk_size are collected (_good_splits) and merged when a
\* longer piece or the end is met; a longer piece is split again with the
\* finer separators.  SplitLoop is the for loop from the i-th piece on: it
\* takes the run of short pieces up to the next long piece in one step.
RECURSIVE SplitText(_, _, _, _)
RECURSIVE SplitLoop(_, _, _, _, _)
SplitLoop(splits, i, new_separators, chunk_size, chunk_overlap) ==
    LET big == {j \in i..Len(splits) : ~(Len(splits[j]) < chunk_size)}
        b == IF big = {} THEN Len(splits) + 1
             ELSE CHOOSE x \in big : \A y \in big : x <= y
        good == SubSeq(splits, i, b - 1)
        merged == IF Len(good) > 0
                  THEN MergeSplits(good, <<>>, chunk_size, chunk_overlap)
                  ELSE <<>>
    IN IF b > Len(splits) THEN merged
       ELSE merged
            \o (IF Len(new_separators) = 0 THEN <<splits[b]>>
                ELSE SplitText(splits[b], new_separators, chunk_size, chunk_overlap))
            \o SplitLoop(splits, b + 1, new_separators, chunk_size, chunk_overlap)

SplitText(text, separators, chunk_size, chunk_overlap) ==
    LET p == PickSeparator(text, separators, 1)
        separator == separators[p]
        new_separators == IF separator = <<>> THEN <<>>
                          ELSE SubSeq(separators, p + 1, Len(separators))
    IN SplitLoop(SplitWithRegex(text, separator), 1, new_separators,
                 chunk_size, chunk_overlap)

(***************************************************************************)
(* The file system the service reads.  A path is the sequence of its       *)
(* components; an entry gives its kind, its suffix (Path.suffix) and what  *)
(* reading it yields.  A .pdf entry lists the text of its pages (None for  *)
(* a page without extractable text) or is unreadable.                      *)
(***************************************************************************)
KNOWLEDGE_DIR == <<"srv", "data", "knowledge">>

\* A paragraph longer than half a chunk: two of them never share a chunk.
Para(c) == Rep(c, 6)

Entry(path, kind, suffix, text, pages, readable) ==
    [path |-> path, kind |-> kind, suffix |-> suffix, text |-> text,
     pages |-> pages, readable |-> readable]

Dir(path, suffix) == Entry(path, "dir", suffix, <<>>, <<>>, TRUE)
TextFile(path, suffix, text) == Entry(path, "file", suffix, text, <<>>, TRUE)
PdfFile(path, suffix, pages, readable) == Entry(path, "file", suffix, <<>>, pages, readable)

FileSystem ==
    { Dir(KNOWLEDGE_DIR, ""),
      TextFile(KNOWLEDGE_DIR \o <<"long.md">>, ".md",
               Para("A") \o <<"\n", "\n">> \o Para("B") \o <<"\n", "\n">> \o Para("C")),
      TextFile(KNOWLEDGE_DIR \o <<"empty.txt">>, ".txt", <<" ", "\n", "\n", " ">>),
      TextFile(KNOWLEDGE_DIR \o <<"notes.DOCX">>, ".DOCX", <<"n", "o">>),
      Dir(KNOWLEDGE_DIR \o <<"good">>, ""),
      TextFile(KNOWLEDGE_DIR \o <<"good", "b.TXT">>, ".TXT",
               Para("B") \o <<"\n">> \o Para("D")),
      TextFile(KNOWLEDGE_DIR \o <<"good", "img.png">>, ".png", <<"x">>),
      Dir(KNOWLEDGE_DIR \o <<"good", "deep.md">>, ".md"),
      PdfFile(KNOWLEDGE_DIR \o <<"good", "deep.md", "c.Pdf">>,
              ".Pdf", << <<"p", " ", "q">>, None, <<"r">> >>, TRUE),
      Dir(KNOWLEDGE_DIR \o <<"mixed">>, ""),
      PdfFile(KNOWLEDGE_DIR \o <<"mixed", "bad.pdf">>, ".pdf", <<>>, FALSE),
      TextFile(KNOWLEDGE_DIR \o <<"mixed", "e.txt">>, ".txt", <<"h", "i", " ", "y", "o">>),
      TextFile(<<"tmp", "x.txt">>, ".txt", <<"x">>) }

Paths == {e.path : e \in FileSystem}

EntryAt(path) == CHOOSE e \in FileSystem : e.path = path

\* Path.exists(), Path.is_file()
Exists(path) == path \in Paths
IsFile(path) == Exists(path) /\ EntryAt(path).kind = "file"

\* str.lower() on the suffixes of the file system.
Lower(suffix) ==
    CASE suffix = ".TXT" -> ".txt"
      [] suffix = ".DOCX" -> ".docx"
      [] suffix = ".Pdf" -> ".pdf"
      [] OTHER -> suffix

\* path.suffix.lower()
SuffixLower(path) == Lower(EntryAt(path).suffix)

IsPrefix(p, q) == Len(p) <= Len(q) /\ SubSeq(q, 1, Len(p)) = p

\* The entries directly inside a directory, and all those under it.
Children(dir) == {p \in Paths : Len(p) = Len(dir) + 1 /\ IsPrefix(dir, p)}
Descendants(dir) == {p \in Paths : Len(p) > Len(dir) /\ IsPrefix(dir, p)}

\* The orders in which a directory's entries can be listed (os.scandir
\* gives no order).
Listings(dir) ==
    LET S == Children(dir)
        n == Cardinality(S)
    IN {l \in [1..n -> S] : \A i, j \in 1..n : i # j => l[i] # l[j]}

\* root.rglob("*"): the entries of root as listed, then those of each
\* directory under it, depth first in listing order.
RECURSIVE RglobOrders(_)
RECURSIVE WalkSubdirs(_, _)
WalkSubdirs(l, i) ==
    IF i > Len(l) THEN {<<>>}
    ELSE IF IsFile(l[i]) THEN WalkSubdirs(l, i + 1)
    ELSE {w \o r : w \in RglobOrders(l[i]), r \in WalkSubdirs(l, i + 1)}

RglobOrders(root) ==
    UNION {{l \o w : w \in WalkSubdirs(l, 1)} : l \in Listings(root)}

(***************************************************************************)
(* app/vector_store.py                                                     *)
(*                                                                         *)
(* The state of the process and of the vector directory is carried through *)
(* the functions as a record st:                                           *)
(*   emb   the module global _embeddings (NoEmbeddings while unset)        *)
(*   vs    the module global _vector_store (NoStore while unset)           *)
(*   disk  VECTOR_DIR: whether it exists, and the index saved in it        *)
(*   uuid  how many docstore ids uuid4 has handed out                      *)
(* A function returns [st, err, val]; err.kind = "ok" unless it raised.    *)
(* env tells how the embedding model behaves during one request: whether   *)
(* HuggingFaceEmbeddings(...) can be constructed and whether an embed call *)
(* succeeds.                                                               *)
(***************************************************************************)

\* EMBED_DIM as the model runs it, and the length of the vectors the
\* configured EMBED_MODEL produces (an EMBED_MODEL set without its EMBED_DIM).
DEFAULT_EMBED_DIM == 3
EmbedModelDim == 2

NoEmbeddings == [type |-> "None"]
HFEmbeddings == [type |-> "HuggingFaceEmbeddings"]
NoStore == [type |-> "None"]

Ok == [kind |-> "ok", detail |-> ""]
Error(kind, detail) == [kind |-> kind, detail |-> detail]
Ret(st, err, val) == [st |-> st, err |-> err, val |-> val]

\* A call followed by the rest of the function: an exception raised by the
\* call r leaves the function at once with the state as the call left it
\* (the function's result is then val), otherwise the function goes on
\* with K(r).
Try(r, val, K(_)) == IF r.err # Ok THEN Ret(r.st, r.err, val) ELSE K(r)

EmptyMap == [x \in {} |-> 0]

\* The embedding model, a fixed function from text to vectors of length
\* EmbedModelDim: component i is the code of the i-th character.
Ord(c) ==
    CASE c = "A" -> 1 [] c = "B" -> 2 [] c = "C" -> 3 [] c = "D" -> 4
      [] c = "h" -> 5 [] c = "p" -> 6 [] c = "e" -> 7 [] c = "x" -> 8
      [] OTHER -> 9

embed_query(text) ==
    [i \in 1..EmbedModelDim |-> IF i <= Len(text) THEN Ord(text[i]) ELSE 0]

embed_documents(texts) == [j \in 1..Len(texts) |-> embed_query(texts[j])]

ProbeText == <<"d", "i", "m">>

\* _get_embeddings(): construct the singleton on first use.
_get_embeddings(st, env) ==
    IF st.emb # NoEmbeddings THEN Ret(st, Ok, st.emb)
    ELSE IF env.ctorOK
         THEN Ret([st EXCEPT !.emb = HFEmbeddings], Ok, HFEmbeddings)
         ELSE Ret(st, Error("EmbeddingFailure", "load"), NoEmbeddings)

\* What FAISS.load_local can deserialize: a saved index that is intact.
Loadable(store) == store.type = "FAISS"

\* _load_vector_store(): None if the directory is missing, or if anything
\* raised while loading (the argument _get_embeddings() is evaluated first;
\* FAISS.load_local raises when the directory holds no saved index, or one
\* it cannot deserialize).
Loaded(g) ==
    IF g.err # Ok \/ ~Loadable(g.st.disk.store) THEN Ret(g.st, Ok, NoStore)
    ELSE Ret(g.st, Ok, g.st.disk.store)

_load_vector_store(st, env) ==
    IF ~st.disk.exists THEN Ret(st, Ok, NoStore)
    ELSE Loaded(_get_embeddings(st, env))

\* faiss.IndexFlatL2(dim) wrapped in FAISS(...) with an empty docstore.
NewFAISS(dim) ==
    [type |-> "FAISS", d |-> dim, xb |-> <<>>,
     docstore |-> EmptyMap, index_to_docstore_id |-> EmptyMap]

\* _create_empty_vector_store(): make the directory, probe the dimension
\* (any exception of the probe falls back to DEFAULT_EMBED_DIM), build the
\* empty index.  The second _get_embeddings() call is outside the try.
ProbedDim(g, env) ==
    IF g.err = Ok /\ env.embedOK THEN Len(embed_query(ProbeText))
    ELSE DEFAULT_EMBED_DIM

Probed(g, env) ==
    Try(_get_embeddings(g.st, env), NoStore,
        LAMBDA g2 : Ret(g2.st, Ok, NewFAISS(ProbedDim(g, env))))

_create_empty_vector_store(st, env) ==
    Probed(_get_embeddings([st EXCEPT !.disk.exists = TRUE], env), env)

\* get_vector_store(): the singleton, loaded or created on first use.
LoadedOrCreated(l, env) ==
    IF l.val = NoStore THEN _create_empty_vector_store(l.st, env) ELSE l

get_vector_store(st, env) ==
    IF st.vs # NoStore THEN Ret(st, Ok, st.vs)
    ELSE Try(LoadedOrCreated(_load_vector_store(st, env), env), NoStore,
             LAMBDA c : Ret([c.st EXCEPT !.vs = c.val], Ok, c.val))

\* A save that writes nothing.
save_nothing(st) == st

\* save_vector_store(vs): vs.save_local(VECTOR_DIR).
save_vector_store(st) ==
    [st EXCEPT !.disk = [exists |-> TRUE, store |-> st.vs]]

\* The store with documents added under the vectors given: each document
\* is stored under a new uuid, and the next positions of the index map to
\* these ids.
Added(st, documents, vectors) ==
    LET vs == st.vs
        n == Len(documents)
        ids == [j \in 1..n |-> st.uuid + j]
        starting_len == Cardinality(DOMAIN vs.index_to_docstore_id)
    IN [st EXCEPT
          !.uuid = st.uuid + n,
          !.vs = [vs EXCEPT
                    !.xb = vs.xb \o vectors,
                    !.docstore =
                        [u \in (DOMAIN vs.docstore) \cup {ids[j] : j \in 1..n} |->
                            IF u \in DOMAIN vs.docstore THEN vs.docstore[u]
                            ELSE documents[u - st.uuid]],
                    !.index_to_docstore_id =
                        [k \in (DOMAIN vs.index_to_docstore_id)
                                \cup {starting_len + j - 1 : j \in 1..n} |->
                            IF k \in DOMAIN vs.index_to_docstore_id
                            THEN vs.index_to_docstore_id[k]
                            ELSE ids[k - starting_len + 1]]]]

PageContents(documents) == [j \in 1..Len(documents) |-> documents[j].page_content]

\* An add that stores vectors of any length.
AddDocumentsOfAnyLength(st, documents, env) ==
    IF ~env.embedOK THEN Ret(st, Error("EmbeddingFailure", "embed_documents"), 0)
    ELSE Ret(Added(st, documents, embed_documents(PageContents(documents))),
             Ok, Len(documents))

\* FAISS.add_documents(documents): embed the texts, then add the vectors to
\* the index (faiss rejects a batch whose vectors are not of length d
\* before it stores any) and store the documents.
AddDocuments(st, documents, env) ==
    IF ~env.embedOK THEN Ret(st, Error("EmbeddingFailure", "embed_documents"), 0)
    ELSE IF \E j \in 1..Len(documents) :
               Len(embed_documents(PageContents(documents))[j]) # st.vs.d
    THEN Ret(st, Error("AssertionError", "index.add"), 0)
    ELSE Ret(Added(st, documents, embed_documents(PageContents(documents))),
             Ok, Len(documents))

\* An add that leaves out a batch whose documents are all stored already.
add_documents_once(st, documents, persist, env) ==
    IF \A j \in 1..Len(documents) :
           \E u \in DOMAIN st.vs.docstore : st.vs.docstore[u] = documents[j]
    THEN Ret(st, Ok, 0)
    ELSE Try(AddDocuments(st, documents, env), 0,
             LAMBDA a : IF persist THEN Ret(save_vector_store(a.st), Ok, a.val)
                        ELSE a)

\* add_documents_to_vector_store(vs, documents, persist)
add_documents_to_vector_store(st, documents, persist, env) ==
    IF Len(documents) = 0 THEN Ret(st, Ok, 0)
    ELSE Try(AddDocuments(st, documents, env), 0,
             LAMBDA a : IF persist THEN Ret(save_vector_store(a.st), Ok, a.val)
                        ELSE a)

\* count_documents_in_vector_store(vs): vs.index.ntotal
count_documents_in_vector_store(vs) == Len(vs.xb)

\* get_vector_store_info()
NoInfo == [index_type |-> "", embedding_dimension |-> 0, doc_count |-> 0]

get_vector_store_info(st, env) ==
    Try(get_vector_store(st, env), NoInfo,
        LAMBDA g : Ret(g.st, Ok,
                       [index_type |-> "IndexFlatL2",
                        embedding_dimension |-> g.val.d,
                        doc_count |-> count_documents_in_vector_store(g.val)]))

\* The squared L2 distance faiss.IndexFlatL2 ranks by.
RECURSIVE SumSq(_, _, _)
SumSq(x, y, i) ==
    IF i > Len(x) THEN 0
    ELSE (x[i] - y[i]) * (x[i] - y[i]) + SumSq(x, y, i + 1)

L2(x, y) == SumSq(x, y, 1)

\* index.search(vector, k) on the flat index: every stored vector is
\* compared; the k nearest come first, nearest first (the lower position
\* first among equals), as (position, distance) pairs.
\* A search that takes the first k positions as they are stored.
FirstStored(xb, vector, rest, k) ==
    [j \in 1..(IF k < Cardinality(rest) THEN k ELSE Cardinality(rest)) |->
        [id |-> j - 1, distance |-> L2(vector, xb[j])]]

RECURSIVE Nearest(_, _, _, _)
Nearest(xb, vector, rest, k) ==
    IF k = 0 \/ rest = {} THEN <<>>
    ELSE LET best == CHOOSE i \in rest : \A j \in rest :
                        \/ L2(vector, xb[i + 1]) < L2(vector, xb[j + 1])
                        \/ (L2(vector, xb[i + 1]) = L2(vector, xb[j + 1]) /\ i <= j)
         IN <<[id |-> best, distance |-> L2(vector, xb[best + 1])]>>
            \o Nearest(xb, vector, rest \ {best}, k - 1)

IndexSearch(vs, vector, k) == Nearest(vs.xb, vector, 0..(Len(vs.xb) - 1), k)

\* What a search hands back, besides the documents: the hits of the index
\* and the collaborators that were called.
Found(docs, hits, calls) == [docs |-> docs, hits |-> hits, calls |-> calls]

\* The documents of the hits: the wrapper skips the -1 faiss pads the
\* result with up to k, and raises if a position has no document.
DocsOf(st, hits, k) ==
    LET vs == st.vs
        I == [j \in 1..k |-> IF j <= Len(hits) THEN hits[j].id ELSE -1]
        found == SelectSeq(I, LAMBDA i : i # -1)
        calls == <<"embed_query", "index.search">>
    IN IF \E j \in 1..Len(found) :
              \/ found[j] \notin DOMAIN vs.index_to_docstore_id
              \/ vs.index_to_docstore_id[found[j]] \notin DOMAIN vs.docstore
       THEN Ret(st, Error("ValueError", "Could not find document"),
                Found(<<>>, hits, calls))
       ELSE Ret(st, Ok,
                Found([j \in 1..Len(found) |->
                          vs.docstore[vs.index_to_docstore_id[found[j]]]],
                      hits, calls))

\* FAISS.similarity_search(query, k): embed the query, search the index
\* (faiss asserts that the query has length d and that k > 0) and map each
\* position found to its document.
similarity_search(st, query, k, env) ==
    IF ~env.embedOK
    THEN Ret(st, Error("EmbeddingFailure", "embed_query"),
             Found(<<>>, <<>>, <<"embed_query">>))
    ELSE IF Len(embed_query(query)) # st.vs.d \/ k < 1
    THEN Ret(st, Error("AssertionError", "index.search"),
             Found(<<>>, <<>>, <<"embed_query", "index.search">>))
    ELSE DocsOf(st, IndexSearch(st.vs, embed_query(query), k), k)

\* A search that also stores the question in the index.
search_and_store(st, query, k, env) ==
    Try(similarity_search(st, query, k, env), Found(<<>>, <<>>, <<>>),
        LAMBDA r :
            Ret(Added(r.st,
                      <<[page_content |-> query,
                         metadata |-> [source |-> <<>>, chunk_id |-> 0]]>>,
                      <<embed_query(query)>>),
                Ok, r.val))

\* search_vector_store(vs, query, k)
search_vector_store(st, query, k, env) == similarity_search(st, query, k, env)

(***************************************************************************)
(* app/ingest.py                                                           *)
(***************************************************************************)
CHUNK_SIZE == 1000
CHUNK_OVERLAP == 200

\* The model measures chunks at 1/Scale of the source's sizes: the texts of
\* the file system are a few characters long, and they are split with
\* chunk_size = CHUNK_SIZE / Scale and chunk_overlap = CHUNK_OVERLAP / Scale.
Scale == 100

Separators == << <<"\n", "\n">>, <<"\n">>, <<" ">>, <<>> >>

\* _split_text(text)
_split_text(text) ==
    SplitText(text, Separators, CHUNK_SIZE \div Scale, CHUNK_OVERLAP \div Scale)

\* _read_text_file(path)
_read_text_file(path) == EntryAt(path).text

\* _read_pdf_file(path): the page texts ("" for a page without text) joined
\* by newlines; PdfReader raises on a file it cannot read.
_read_pdf_file(path) ==
    LET e == EntryAt(path)
        texts == [i \in 1..Len(e.pages) |->
                     IF e.pages[i] = None THEN <<>> ELSE e.pages[i]]
    IN IF ~e.readable THEN [err |-> Error("PdfReadError", ""), val |-> <<>>]
       ELSE [err |-> Ok, val |-> Join(texts, <<"\n">>)]

\* A Document numbered from 1.
DocumentFromOne(page_content, source, chunk_id) ==
    [page_content |-> page_content,
     metadata |-> [source |-> source, chunk_id |-> chunk_id + 1]]

Document(page_content, source, chunk_id) ==
    [page_content |-> page_content,
     metadata |-> [source |-> source, chunk_id |-> chunk_id]]

\* path.relative_to(KNOWLEDGE_DIR)
RelativeTo(path, base) == SubSeq(path, Len(base) + 1, Len(path))

\* Text suffixes that take in every file.
AnySuffixes == {".txt", ".md", ".docx", ".png"}

\* The suffixes load_file_as_documents reads as text.
TextSuffixes == {".txt", ".md"}

\* load_file_as_documents(path): read by suffix, split, and make a Document
\* of every chunk that is not blank, numbered by its position in the split
\* output.  relative_to raises for a path outside KNOWLEDGE_DIR.
load_file_as_documents(path) ==
    LET suffix == SuffixLower(path)
        raw == IF suffix \in TextSuffixes
               THEN [err |-> Ok, val |-> _read_text_file(path)]
               ELSE IF suffix = ".pdf" THEN _read_pdf_file(path)
               ELSE [err |-> Error("ValueError", "Unsupported file type: " \o suffix),
                     val |-> <<>>]
        chunks == _split_text(raw.val)
        kept == SelectSeq([i \in 1..Len(chunks) |-> i],
                          LAMBDA i : Strip(chunks[i]) # <<>>)
        docs == [j \in 1..Len(kept) |->
                    Document(chunks[kept[j]], RelativeTo(path, KNOWLEDGE_DIR),
                             kept[j] - 1)]
    IN IF raw.err # Ok THEN [err |-> raw.err, val |-> <<>>]
       ELSE IF Len(kept) > 0 /\ ~IsPrefix(KNOWLEDGE_DIR, path)
       THEN [err |-> Error("ValueError", "relative_to"), val |-> <<>>]
       ELSE [err |-> Ok, val |-> docs]

\* The files of the file system never change: each is loaded once.
FilePaths == {p \in Paths : IsFile(p)}
FileDocuments == [p \in FilePaths |-> load_file_as_documents(p)]

\* An ingest_path that returns the size of the index.
ingest_path_counting_all(st, path, env) ==
    Try(get_vector_store(st, env), 0,
        LAMBDA g :
            Try(Ret(g.st, FileDocuments[path].err, FileDocuments[path].val), 0,
                LAMBDA l :
                    Try(add_documents_to_vector_store(l.st, l.val, TRUE, env), 0,
                        LAMBDA a : Ret(a.st, Ok,
                                       count_documents_in_vector_store(a.st.vs)))))

\* ingest_path(path): returns the number of chunks added.
ingest_path(st, path, env) ==
    Try(get_vector_store(st, env), 0,
        LAMBDA g :
            Try(Ret(g.st, FileDocuments[path].err, FileDocuments[path].val), 0,
                LAMBDA l :
                    Try(add_documents_to_vector_store(l.st, l.val, TRUE, env), 0,
                        LAMBDA a : Ret(a.st, Ok, Len(l.val)))))

\* Suffixes of ingest_directory that take in every file.
EverySuffix == {".txt", ".md", ".pdf", ".docx", ".png"}

SupportedSuffixes == {".txt", ".md", ".pdf"}

\* ingest_directory(root): the loop over root.rglob("*"), in the order
\* paths, with its state lp = (i, st, total).  An exception of ingest_path
\* leaves the loop and the function.
RECURSIVE IngestLoop(_, _, _)
IngestLoop(paths, env, lp) ==
    IF lp.i > Len(paths) THEN Ret(lp.st, Ok, lp.total)
    ELSE IF \/ ~IsFile(paths[lp.i])
            \/ SuffixLower(paths[lp.i]) \notin SupportedSuffixes
    THEN IngestLoop(paths, env, [lp EXCEPT !.i = lp.i + 1])
    ELSE Try(ingest_path(lp.st, paths[lp.i], env), 0,
             LAMBDA r : IngestLoop(paths, env,
                            [i |-> lp.i + 1, st |-> r.st, total |-> lp.total + r.val]))

ingest_directory(st, paths, env) ==
    IngestLoop(paths, env, [i |-> 1, st |-> st, total |-> 0])

(***************************************************************************)
(* app/api.py                                                              *)
(***************************************************************************)
SentinelAnswer ==
    [kind |-> "No documents in the index yet. Ingest something first.", snippets |-> <<>>]

RetrievedChunk(d) ==
    [source |-> d.metadata.source, chunk_id |-> d.metadata.chunk_id,
     text |-> Strip(d.page_content)]

QueryResponse(answer, retrieved) == [answer |-> answer, retrieved |-> retrieved]

\* What a query hands back: the QueryResponse, with the hits of the index
\* and the collaborators that were called.
Answered(response, f) == [response |-> response, hits |-> f.hits, calls |-> f.calls]

NoResponse == Answered(QueryResponse(SentinelAnswer, <<>>), Found(<<>>, <<>>, <<>>))

\* The loop of run_rag_query over the documents found.
Stitched(docs) ==
    QueryResponse(
        [kind |-> "Top matching chunks from your library:",
         snippets |-> [i \in 1..Len(docs) |->
                          [rank |-> i, text |-> Strip(docs[i].page_content)]]],
        [i \in 1..Len(docs) |-> RetrievedChunk(docs[i])])

\* run_rag_query(question, k) once it holds the store: the search, then
\* the sentinel answer if nothing came back, else the ranked snippets.
Searched(r) ==
    IF r.err # Ok
    THEN Ret(r.st, r.err, Answered(QueryResponse(SentinelAnswer, <<>>), r.val))
    ELSE IF Len(r.val.docs) = 0
    THEN Ret(r.st, Ok, Answered(QueryResponse(SentinelAnswer, <<>>), r.val))
    ELSE Ret(r.st, Ok, Answered(Stitched(r.val.docs), r.val))

\* run_rag_query(question, k)
run_rag_query(st, question, k, env) ==
    Try(get_vector_store(st, env), NoResponse,
        LAMBDA g : Searched(search_vector_store(g.st, question, k, env)))

(***************************************************************************)
(* The service: one process with its module globals, the vector directory, *)
(* and the requests it serves one at a time.                               *)
(***************************************************************************)
VARIABLES
    _embeddings,    \* vector_store._embeddings
    _vector_store,  \* vector_store._vector_store
    disk,           \* VECTOR_DIR
    uuid,           \* docstore ids handed out so far
    last,           \* the last request and its outcome
    split_input,    \* the text handed to _split_text
    split_output,   \* what _split_text returned for it (None before the call)
    threads,        \* the request threads: where each is, and its locals
    heap            \* the objects the process has constructed

vars == <<_embeddings, _vector_store, disk, uuid, last, split_input, split_output,
          threads, heap>>

\* Bounds of the model: the index holds at most MaxDocs fragments, a query
\* asks for at most MaxK results.
MaxDocs == 4
MaxK == 2

Questions == {<<"A">>, <<"h", "i">>}
Envs == [ctorOK : BOOLEAN, embedOK : BOOLEAN]

\* The paths a request names: every file but the one ingest_directory
\* skips, the directories under KNOWLEDGE_DIR, and a path that does not exist.
MissingPath == KNOWLEDGE_DIR \o <<"gone.txt">>
IngestTargets ==
    (FilePaths \ {KNOWLEDGE_DIR \o <<"good", "img.png">>})
        \cup {KNOWLEDGE_DIR \o <<"good">>,
              KNOWLEDGE_DIR \o <<"good", "deep.md">>,
              KNOWLEDGE_DIR \o <<"mixed">>,
              MissingPath}

DirOrders == [d \in {t \in IngestTargets : Exists(t) /\ ~IsFile(t)} |-> RglobOrders(d)]

State == [emb |-> _embeddings, vs |-> _vector_store, disk |-> disk, uuid |-> uuid]

Healthy == [ctorOK |-> TRUE, embedOK |-> TRUE]

\* The request threads of the worker pool, a thread that serves no request,
\* and the heap before anything is constructed.
NumThreads == 2
Threads == 1..NumThreads
Idle ==
    [pc |-> "idle", op |-> "", ret |-> "", vs |-> NoStore, emb |-> NoEmbeddings,
     dim |-> 0, ids |-> <<>>, starting_len |-> 0, buf |-> NoStore]
NoThreads == [t \in Threads |-> Idle]
EmptyHeap == [embeddings |-> 0, stores |-> <<>>, started |-> 0]

Count(vs) == IF vs = NoStore THEN 0 ELSE count_documents_in_vector_store(vs)

\* The index a request finds: the singleton, or while the process holds
\* none, what can be loaded from the vector directory.
Live ==
    IF _vector_store # NoStore THEN _vector_store
    ELSE IF Loadable(disk.store) THEN disk.store
    ELSE NoStore

\* The record of a request: what was asked, how many fragments the index
\* held before, and what the handler handed back.
Last(op, path, question, k, r) ==
    [op |-> op, path |-> path, question |-> question, k |-> k,
     before |-> Count(Live),
     err |-> r.err,
     added |-> IF op \in {"ingest_path", "ingest_directory"} THEN r.val ELSE 0,
     info |-> IF op = "status" THEN r.val ELSE NoInfo,
     query |-> IF op = "query" THEN r.val ELSE NoResponse]

NoRequest(op) ==
    [op |-> op, path |-> <<>>, question |-> <<>>, k |-> 0, before |-> 0,
     err |-> Ok, added |-> 0, info |-> NoInfo, query |-> NoResponse]

Install(r, l) ==
    /\ Count(r.st.vs) <= MaxDocs
    /\ r.st.uuid <= MaxDocs
    /\ _embeddings' = r.st.emb
    /\ _vector_store' = r.st.vs
    /\ disk' = r.st.disk
    /\ uuid' = r.st.uuid
    /\ last' = l
    /\ UNCHANGED <<split_input, split_output, threads, heap>>

Init ==
    /\ _embeddings = NoEmbeddings
    /\ _vector_store = NoStore
    /\ disk = [exists |-> FALSE, store |-> NoStore]
    /\ uuid = 0
    /\ last = NoRequest("start")
    /\ split_input = <<>>
    /\ split_output = None
    /\ threads = NoThreads
    /\ heap = EmptyHeap

\* GET /status
status ==
    \E env \in Envs :
        \E r \in {get_vector_store_info(State, env)} :
            Install(r, Last("status", <<>>, <<>>, 0, r))

\* POST /query
query ==
    \E question \in Questions, k \in 1..MaxK, env \in Envs :
        \E r \in {run_rag_query(State, question, k, env)} :
            Install(r, Last("query", <<>>, question, k, r))

\* POST /ingest/path: 404 for a missing target, ingest_path for a file,
\* ingest_directory for anything else.
ingest_from_path ==
    \E target \in IngestTargets, env \in Envs :
        IF ~Exists(target)
        THEN Install(Ret(State, Error("HTTPException", "404"), 0),
                     Last("not_found", target, <<>>, 0,
                          Ret(State, Error("HTTPException", "404"), 0)))
        ELSE IF IsFile(target)
        THEN \E r \in {ingest_path(State, target, env)} :
                Install(r, Last("ingest_path", target, <<>>, 0, r))
        ELSE \E paths \in DirOrders[target] :
                \E r \in {ingest_directory(State, paths, env)} :
                    Install(r, Last("ingest_directory", target, <<>>, 0, r))

\* The process exits and a new one starts: the module globals are unset,
\* the vector directory stays.
Restart ==
    /\ _embeddings' = NoEmbeddings
    /\ _vector_store' = NoStore
    /\ UNCHANGED <<disk, uuid, split_input, split_output, threads, heap>>
    /\ last' = NoRequest("restart")

\* A saved index that cannot be deserialized; nothing reads what it held.
Unreadable == [NewFAISS(0) EXCEPT !.type = "damaged"]

\* The saved index becomes unreadable (corrupt data, an incompatible
\* format) while no process has it loaded.
Damage ==
    /\ _vector_store = NoStore
    /\ Loadable(disk.store)
    /\ disk' = [disk EXCEPT !.store = Unreadable]
    /\ UNCHANGED <<_embeddings, _vector_store, uuid, split_input, split_output,
                   threads, heap>>
    /\ last' = NoRequest("damage")

Next == status \/ query \/ ingest_from_path \/ Restart \/ Damage

Spec == Init /\ [][Next]_vars

(***************************************************************************)
(* The splitter on its own: _split_text applied to a text.                  *)
(***************************************************************************)
\* The longest text of distinct characters that is split.
MaxText == 30

\* A text of n characters, all different and none of them whitespace.
Symbols(n) == [i \in 1..n |-> ToString(i)]

Words == {<<>>, Rep("A", 3), Rep("B", 7), Rep("C", 12)}
Gaps == {<<" ">>, <<"\n">>, <<"\n", "\n">>}

\* The texts split: single paragraphs of every length up to MaxText, and
\* three words, some of them empty, with whitespace between them.
Texts ==
    {Symbols(n) : n \in 0..MaxText}
        \cup {w[1] \o g[1] \o w[2] \o g[2] \o w[3] :
                  w \in [1..3 -> Words], g \in [1..2 -> Gaps]}

SplitInit ==
    /\ _embeddings = NoEmbeddings
    /\ _vector_store = NoStore
    /\ disk = [exists |-> FALSE, store |-> NoStore]
    /\ uuid = 0
    /\ last = NoRequest("start")
    /\ split_input \in Texts
    /\ split_output = None
    /\ threads = NoThreads
    /\ heap = EmptyHeap

\* chunks = _split_text(text)
split_text ==
    /\ split_output = None
    /\ split_output' = _split_text(split_input)
    /\ UNCHANGED <<_embeddings, _vector_store, disk, uuid, last, split_input,
                   threads, heap>>

SplitNext == split_text

SplitSpec == SplitInit /\ [][SplitNext]_vars

(***************************************************************************)
(* The service under concurrent requests.  FastAPI runs the handlers       *)
(* status, query and ingest_from_path (plain def) on the threads of a      *)
(* worker pool, so their statements interleave.  The code takes no lock.   *)
(* Objects are shared between threads, so they live in heap and the module *)
(* globals and the locals hold references to them:                         *)
(*   heap.embeddings  how many HuggingFaceEmbeddings were constructed      *)
(*   heap.stores      the FAISS objects constructed, each with its index   *)
(*                    and the embedding model it was given                 *)
(*   heap.started     how many ingest requests have begun                  *)
(* A thread is at pc, the statement it executes next; at "probing",        *)
(* "embed_query" and "embed_documents" it is inside that call of the       *)
(* embedding model.  The embedding model works in every request here.      *)
(***************************************************************************)
\* Ingest requests served.
MaxAdds == 2

Ref(i) == [type |-> "ref", id |-> i]

\* The file the ingest requests name, and its documents.
ConcTarget == KNOWLEDGE_DIR \o <<"mixed", "e.txt">>
ConcDocuments == FileDocuments[ConcTarget].val

\* The FAISS object a reference points to.
Deref(ref) == heap.stores[ref.id]

Goto(t, pc) == [threads EXCEPT ![t].pc = pc]

ConcInit ==
    /\ _embeddings = NoEmbeddings
    /\ _vector_store = NoStore
    /\ disk = [exists |-> FALSE, store |-> NoStore]
    /\ uuid = 0
    /\ last = NoRequest("start")
    /\ split_input = <<>>
    /\ split_output = None
    /\ threads = NoThreads
    /\ heap = EmptyHeap

\* A request arrives and a thread of the pool takes it; each handler
\* starts by calling get_vector_store().
Begin(t) ==
    /\ threads[t].pc = "idle"
    /\ \E op \in {"status", "query", "ingest"} :
          /\ op = "ingest" => heap.started < MaxAdds
          /\ threads' = [threads EXCEPT ![t] = [Idle EXCEPT !.pc = "get_vector_store",
                                                            !.op = op]]
          /\ heap' = [heap EXCEPT !.started = IF op = "ingest" THEN @ + 1 ELSE @]
    /\ UNCHANGED <<_embeddings, _vector_store, disk, uuid, last,
                   split_input, split_output>>

\* Where a handler goes on with the index it got.
Body(op) ==
    CASE op = "status" -> "get_vector_store_info"
      [] op = "query" -> "embed_query"
      [] op = "ingest" -> "embed_documents"

\* get_vector_store(): `if _vector_store is None`, and when it is not,
\* `return _vector_store`.  The handler goes on: status reads the info,
\* run_rag_query enters vs.similarity_search, which embeds the question,
\* ingest_path loads the documents and enters vs.add_documents, which
\* embeds them.
GetVectorStore(t) ==
    /\ threads[t].pc = "get_vector_store"
    /\ threads' =
          IF _vector_store = NoStore THEN Goto(t, "_load_vector_store")
          ELSE [threads EXCEPT
                   ![t].vs = _vector_store,
                   ![t].emb = IF threads[t].op = "status" THEN NoEmbeddings
                              ELSE Deref(_vector_store).embedding_function,
                   ![t].pc = Body(threads[t].op)]
    /\ UNCHANGED <<_embeddings, _vector_store, disk, uuid, last,
                   split_input, split_output, heap>>

\* _load_vector_store(): `if not VECTOR_DIR.exists(): return None`, else
\* the call of _get_embeddings() that precedes FAISS.load_local.
LoadVectorStore(t) ==
    /\ threads[t].pc = "_load_vector_store"
    /\ threads' =
          IF ~disk.exists THEN Goto(t, "_create_empty_vector_store")
          ELSE [threads EXCEPT ![t].pc = "_get_embeddings", ![t].ret = "load_local"]
    /\ UNCHANGED <<_embeddings, _vector_store, disk, uuid, last,
                   split_input, split_output, heap>>

\* _get_embeddings(): `if _embeddings is None`, and when it is not,
\* `return _embeddings` to the caller.
GetEmbeddings(t) ==
    /\ threads[t].pc = "_get_embeddings"
    /\ threads' =
          IF _embeddings = NoEmbeddings THEN Goto(t, "HuggingFaceEmbeddings")
          ELSE [threads EXCEPT ![t].emb = _embeddings, ![t].pc = threads[t].ret]
    /\ UNCHANGED <<_embeddings, _vector_store, disk, uuid, last,
                   split_input, split_output, heap>>

\* _get_embeddings(): `_embeddings = HuggingFaceEmbeddings(...)`; the
\* `return _embeddings` that follows reads the global again.
ConstructEmbeddings(t) ==
    /\ threads[t].pc = "HuggingFaceEmbeddings"
    /\ heap' = [heap EXCEPT !.embeddings = @ + 1]
    /\ _embeddings' = Ref(heap.embeddings + 1)
    /\ threads' = Goto(t, "_get_embeddings")
    /\ UNCHANGED <<_vector_store, disk, uuid, last, split_input, split_output>>

\* FAISS.load_local(VECTOR_DIR, embeddings): a new FAISS object with the
\* saved index; when it raises, _load_vector_store returns None and
\* get_vector_store calls _create_empty_vector_store.
LoadLocal(t) ==
    /\ threads[t].pc = "load_local"
    /\ IF Loadable(disk.store)
       THEN /\ heap' = [heap EXCEPT !.stores =
                           Append(@, [vs |-> disk.store,
                                      embedding_function |-> threads[t].emb])]
            /\ threads' = [threads EXCEPT ![t].vs = Ref(Len(heap.stores) + 1),
                                          ![t].pc = "assign"]
       ELSE /\ heap' = heap
            /\ threads' = Goto(t, "_create_empty_vector_store")
    /\ UNCHANGED <<_embeddings, _vector_store, disk, uuid, last,
                   split_input, split_output>>

\* _create_empty_vector_store(): INDEX_DIR.mkdir, then the call of
\* _get_embeddings() whose result embeds the probe.
CreateEmptyVectorStore(t) ==
    /\ threads[t].pc = "_create_empty_vector_store"
    /\ disk' = [disk EXCEPT !.exists = TRUE]
    /\ threads' = [threads EXCEPT ![t].pc = "_get_embeddings", ![t].ret = "probing"]
    /\ UNCHANGED <<_embeddings, _vector_store, uuid, last,
                   split_input, split_output, heap>>

\* embed_query("dimension probe") returns, dim = len(probe_vec); then the
\* call of _get_embeddings() for the FAISS object.
Probe(t) ==
    /\ threads[t].pc = "probing"
    /\ threads' = [threads EXCEPT ![t].dim = Len(embed_query(ProbeText)),
                                  ![t].pc = "_get_embeddings",
                                  ![t].ret = "FAISS"]
    /\ UNCHANGED <<_embeddings, _vector_store, disk, uuid, last,
                   split_input, split_output, heap>>

\* vs = FAISS(embedding_function=..., index=faiss.IndexFlatL2(dim), ...)
ConstructStore(t) ==
    /\ threads[t].pc = "FAISS"
    /\ heap' = [heap EXCEPT !.stores =
                   Append(@, [vs |-> NewFAISS(threads[t].dim),
                              embedding_function |-> threads[t].emb])]
    /\ threads' = [threads EXCEPT ![t].vs = Ref(Len(heap.stores) + 1),
                                  ![t].pc = "assign"]
    /\ UNCHANGED <<_embeddings, _vector_store, disk, uuid, last,
                   split_input, split_output>>

\* get_vector_store(): `_vector_store = vs`; the `return _vector_store`
\* that follows reads the global again.
AssignVectorStore(t) ==
    /\ threads[t].pc = "assign"
    /\ _vector_store' = threads[t].vs
    /\ threads' = Goto(t, "get_vector_store")
    /\ UNCHANGED <<_embeddings, disk, uuid, last, split_input, split_output, heap>>

\* get_vector_store_info(): reads the index; the request is served.
GetInfo(t) ==
    /\ threads[t].pc = "get_vector_store_info"
    /\ threads' = [threads EXCEPT ![t] = Idle]
    /\ UNCHANGED <<_embeddings, _vector_store, disk, uuid, last,
                   split_input, split_output, heap>>

\* similarity_search: embed_query(question) returns.
EmbedQuery(t) ==
    /\ threads[t].pc = "embed_query"
    /\ threads' = Goto(t, "index.search")
    /\ UNCHANGED <<_embeddings, _vector_store, disk, uuid, last,
                   split_input, split_output, heap>>

\* similarity_search: index.search and the docstore lookups; the request
\* is served.
Search(t) ==
    /\ threads[t].pc = "index.search"
    /\ threads' = [threads EXCEPT ![t] = Idle]
    /\ UNCHANGED <<_embeddings, _vector_store, disk, uuid, last,
                   split_input, split_output, heap>>

\* add_documents: embed_documents(texts) returns.
EmbedDocuments(t) ==
    /\ threads[t].pc = "embed_documents"
    /\ threads' = Goto(t, "index.add")
    /\ UNCHANGED <<_embeddings, _vector_store, disk, uuid, last,
                   split_input, split_output, heap>>

\* add_documents: self.index.add(vector); faiss rejects vectors that are
\* not of length d, and the request fails.
IndexAdd(t) ==
    /\ threads[t].pc = "index.add"
    /\ LET i == threads[t].vs.id
           vectors == embed_documents(PageContents(ConcDocuments))
       IN IF \E j \in 1..Len(vectors) : Len(vectors[j]) # heap.stores[i].vs.d
          THEN /\ heap' = heap
               /\ threads' = [threads EXCEPT ![t] = Idle]
          ELSE /\ heap' = [heap EXCEPT !.stores[i].vs.xb = @ \o vectors]
               /\ threads' = Goto(t, "docstore.add")
    /\ UNCHANGED <<_embeddings, _vector_store, disk, uuid, last,
                   split_input, split_output>>

\* add_documents: new uuid4 ids, self.docstore.add({id: doc}), and
\* starting_len = len(self.index_to_docstore_id).
DocstoreAdd(t) ==
    /\ threads[t].pc = "docstore.add"
    /\ LET i == threads[t].vs.id
           n == Len(ConcDocuments)
           docstore == heap.stores[i].vs.docstore
       IN /\ uuid' = uuid + n
          /\ heap' = [heap EXCEPT !.stores[i].vs.docstore =
                         [u \in (DOMAIN docstore) \cup {uuid + j : j \in 1..n} |->
                             IF u \in DOMAIN docstore THEN docstore[u]
                             ELSE ConcDocuments[u - uuid]]]
          /\ threads' = [threads EXCEPT
                            ![t].ids = [j \in 1..n |-> uuid + j],
                            ![t].starting_len =
                                Cardinality(DOMAIN heap.stores[i].vs.index_to_docstore_id),
                            ![t].pc = "update"]
    /\ UNCHANGED <<_embeddings, _vector_store, disk, last, split_input, split_output>>

\* add_documents: self.index_to_docstore_id.update({starting_len + j: id});
\* then save_vector_store(vs) is called.
UpdateIds(t) ==
    /\ threads[t].pc = "update"
    /\ LET i == threads[t].vs.id
           n == Len(threads[t].ids)
           starting_len == threads[t].starting_len
           map == heap.stores[i].vs.index_to_docstore_id
           new == {starting_len + j - 1 : j \in 1..n}
       IN heap' = [heap EXCEPT !.stores[i].vs.index_to_docstore_id =
                      [k \in (DOMAIN map) \cup new |->
                          IF k \in new THEN threads[t].ids[k - starting_len + 1]
                          ELSE map[k]]]
    /\ threads' = Goto(t, "save_local")
    /\ UNCHANGED <<_embeddings, _vector_store, disk, uuid, last,
                   split_input, split_output>>

\* vs.save_local(VECTOR_DIR): the index and the docstore are serialized
\* as they are now.
Serialize(t) ==
    /\ threads[t].pc = "save_local"
    /\ threads' = [threads EXCEPT ![t].buf = Deref(threads[t].vs).vs,
                                  ![t].pc = "write"]
    /\ UNCHANGED <<_embeddings, _vector_store, disk, uuid, last,
                   split_input, split_output, heap>>

\* vs.save_local(VECTOR_DIR): what was serialized reaches the files; the
\* request is served.
Write(t) ==
    /\ threads[t].pc = "write"
    /\ disk' = [exists |-> TRUE, store |-> threads[t].buf]
    /\ threads' = [threads EXCEPT ![t] = Idle]
    /\ UNCHANGED <<_embeddings, _vector_store, uuid, last,
                   split_input, split_output, heap>>

ConcNext ==
    \E t \in Threads :
        \/ Begin(t)
        \/ GetVectorStore(t)
        \/ LoadVectorStore(t)
        \/ GetEmbeddings(t)
        \/ ConstructEmbeddings(t)
        \/ LoadLocal(t)
        \/ CreateEmptyVectorStore(t)
        \/ Probe(t)
        \/ ConstructStore(t)
        \/ AssignVectorStore(t)
        \/ GetInfo(t)
        \/ EmbedQuery(t)
        \/ Search(t)
        \/ EmbedDocuments(t)
        \/ IndexAdd(t)
        \/ DocstoreAdd(t)
        \/ UpdateIds(t)
        \/ Serialize(t)
        \/ Write(t)

ConcSpec == ConcInit /\ [][ConcNext]_vars

(***************************************************************************)
(* Properties.                                                             *)
(***************************************************************************)
\* The entries of an index: its vectors and its id-to-fragment mapping.
Entries(vs) ==
    IF vs = NoStore
    THEN [xb |-> <<>>, docstore |-> EmptyMap, index_to_docstore_id |-> EmptyMap]
    ELSE [xb |-> vs.xb, docstore |-> vs.docstore,
          index_to_docstore_id |-> vs.index_to_docstore_id]

\* The fragment stored under an internal id.
DocAt(vs, id) == vs.docstore[vs.index_to_docstore_id[id]]

\* The extensions the specification names as supported.
ClaimedExtensions == {".txt", ".md", ".pdf"}

IngestedFile == last.op = "ingest_path" /\ last.err = Ok

\* What a new process holds after its first access to the vector
\* directory, the embedding model working.
Reloaded ==
    get_vector_store([emb |-> NoEmbeddings, vs |-> NoStore,
                      disk |-> disk, uuid |-> uuid], Healthy)

\* The outcome of a search for the nearest fragment.
Top1(st, question) ==
    [err |-> search_vector_store(st, question, 1, Healthy).err,
     docs |-> search_vector_store(st, question, 1, Healthy).val.docs]

SameAfterReload ==
    /\ Reloaded.err = Ok
    /\ Count(Reloaded.val) = Count(_vector_store)
    /\ \A question \in Questions :
           Top1(Reloaded.st, question) = Top1(State, question)

\* C1 (as amended): after ingest_path has completed for a supported file
\* that yields at least one fragment, a new process that loads the index
\* from the vector directory gets the same doc_count and, for every
\* question, the same outcome of the top-1 search as the process that
\* ingested.
C1_RoundTrip == (IngestedFile /\ last.added > 0) => SameAfterReload

C1_RoundTrip_Witness ==
    /\ IngestedFile
    /\ last.added > 1
    /\ last.before > 0
    /\ SameAfterReload
    /\ \E question \in Questions : Len(Top1(State, question).docs) = 1

\* C1 as stated: the same for every supported file, one that yields no
\* fragment included.
C1_RoundTripOfEveryFile == IngestedFile => SameAfterReload

\* C2: when the same file is ingested twice in a row, the second ingest
\* returns the same count as the first, the index has grown by twice that
\* count since before the first, and the second batch repeats the
\* fragments of the first under internal ids and docstore ids the index
\* did not hold before, the first batch keeping its own.
C2_NoDeduplication ==
    [][(/\ IngestedFile
        /\ last'.op = "ingest_path"
        /\ last'.err = Ok
        /\ last'.path = last.path)
       => /\ last'.added = last.added
          /\ Count(_vector_store') - last.before = 2 * last.added
          /\ \A j \in 1..last.added :
                /\ (last'.before + j - 1)
                       \notin DOMAIN _vector_store.index_to_docstore_id
                /\ (last'.before + j - 1)
                       \in DOMAIN _vector_store'.index_to_docstore_id
                /\ _vector_store'.index_to_docstore_id[last'.before + j - 1]
                       \notin DOMAIN _vector_store.docstore
                /\ DocAt(_vector_store', last'.before + j - 1)
                       = DocAt(_vector_store, last.before + j - 1)
                /\ DocAt(_vector_store', last.before + j - 1)
                       = DocAt(_vector_store, last.before + j - 1)]_vars

C2_NoDeduplication_Witness ==
    /\ IngestedFile
    /\ last.added > 1
    /\ last.before >= last.added
    /\ \A j \in 1..last.added :
           /\ DocAt(_vector_store, last.before + j - 1)
                  = DocAt(_vector_store, last.before - last.added + j - 1)
           /\ _vector_store.index_to_docstore_id[last.before + j - 1]
                  # _vector_store.index_to_docstore_id[last.before - last.added + j - 1]

VectorsFit(vs) ==
    vs = NoStore \/ \A i \in 1..Len(vs.xb) : Len(vs.xb[i]) = vs.d

DimensionMismatch == Error("AssertionError", "index.add")

\* C3: an ingest whose add is rejected for the length of its vectors
\* leaves the vectors and the id-to-fragment mapping of the index and the
\* persisted store as they were, and in every state every vector of the
\* index, in memory and persisted, has the length d of the index.
C3_DimensionConsistency ==
    [][/\ VectorsFit(_vector_store')
       /\ VectorsFit(disk'.store)
       /\ (last'.err = DimensionMismatch
              => /\ Entries(Live') = Entries(Live)
                 /\ disk'.store = disk.store)]_vars

C3_DimensionConsistency_Witness ==
    /\ last.op = "ingest_path"
    /\ last.err = DimensionMismatch
    /\ Len(FileDocuments[last.path].val) > 1
    /\ _vector_store.d # EmbedModelDim
    /\ Count(_vector_store) = 0
    /\ disk.store = NoStore

Min(a, b) == IF a < b THEN a ELSE b

\* A query request whose question was embedded into a vector of the
\* length of the index, and searched for.
SearchedIndex ==
    /\ last.op = "query"
    /\ Len(last.query.calls) = 2
    /\ Len(embed_query(last.question)) = _vector_store.d

\* C4: a search with k >= 1 and a query vector of the index's length
\* returns without error exactly min(k, ntotal) results (none on an empty
\* index), each with its L2 distance to the query vector, in ascending
\* order of distance and no other fragment nearer than the last of them;
\* the retrieved list of the query gives, in the same order, the fragment
\* stored under each returned internal id.
C4_SearchResults ==
    SearchedIndex =>
        LET hits == last.query.hits
            retrieved == last.query.response.retrieved
            vector == embed_query(last.question)
            n == Min(last.k, Count(_vector_store))
        IN /\ last.k >= 1
           /\ last.err = Ok
           /\ Len(hits) = n
           /\ Len(retrieved) = n
           /\ \A j \in 1..n :
                 /\ hits[j].id \in 0..(Count(_vector_store) - 1)
                 /\ hits[j].distance = L2(vector, _vector_store.xb[hits[j].id + 1])
                 /\ retrieved[j] = RetrievedChunk(DocAt(_vector_store, hits[j].id))
           /\ \A i, j \in 1..n : i < j =>
                 /\ hits[i].id # hits[j].id
                 /\ hits[i].distance <= hits[j].distance
           /\ \A id \in 0..(Count(_vector_store) - 1) :
                 (\A j \in 1..n : hits[j].id # id)
                     => \A j \in 1..n :
                            hits[j].distance <= L2(vector, _vector_store.xb[id + 1])

C4_SearchResults_Witness ==
    /\ SearchedIndex
    /\ last.k = 2
    /\ Count(_vector_store) > 2
    /\ Len(last.query.response.retrieved) = 2
    /\ last.query.hits[1].distance < last.query.hits[2].distance
    /\ last.query.hits[1].id > last.query.hits[2].id

\* C5 as stated: a query on an index that holds no fragment returns the
\* sentinel answer and an empty retrieved list, and calls neither the
\* embedding model nor the search of the index.
C5_EmptyIndexQuery ==
    (last.op = "query" /\ _vector_store # NoStore /\ Count(_vector_store) = 0)
        => /\ last.err = Ok
           /\ last.query.response = QueryResponse(SentinelAnswer, <<>>)
           /\ last.query.calls = <<>>

\* The files under a directory that carry one of the supported extensions.
SupportedUnder(root) ==
    {p \in Descendants(root) : IsFile(p) /\ SuffixLower(p) \in ClaimedExtensions}

\* The number of fragments the files of a set yield, those that load.
RECURSIVE Fragments(_)
Fragments(files) ==
    IF files = {} THEN 0
    ELSE LET p == CHOOSE q \in files : TRUE
         IN (IF FileDocuments[p].err = Ok THEN Len(FileDocuments[p].val) ELSE 0)
            + Fragments(files \ {p})

\* The fragments an ingest request stored.
Stored ==
    {DocAt(_vector_store, id) : id \in last.before..(Count(_vector_store) - 1)}

\* An ingest request that the embedding model did not fail.
ModelWorked ==
    /\ last.err.kind # "EmbeddingFailure"
    /\ last.err # DimensionMismatch

\* C6 as stated: when a supported file under the root fails to load,
\* ingest_directory does not propagate the failure, and ingests every
\* other supported file under the root.
C6_FailureIsolation ==
    (last.op = "ingest_directory" /\ ModelWorked)
        => /\ last.err = Ok
           /\ Count(_vector_store) - last.before
                  = Fragments(SupportedUnder(last.path))

C8_ReturnsCountAdded ==
    [][(last'.op = "ingest_path" /\ last'.err = Ok)
       => /\ Count(_vector_store') = Count(Live) + last'.added
          /\ \A env \in Envs :
                get_vector_store_info(State, env).err = Ok
                    => /\ get_vector_store_info(State', env).err = Ok
                       /\ get_vector_store_info(State', env).val.doc_count
                              = get_vector_store_info(State, env).val.doc_count
                                    + last'.added]_vars

C8_ReturnsCountAdded_Witness ==
    /\ IngestedFile
    /\ last.added > 1
    /\ last.before > 0
    /\ Count(_vector_store) = last.before + last.added
    /\ get_vector_store_info(State, Healthy).val.doc_count = Count(_vector_store)

\* C9: an ingest_directory that meets no file that fails to load, the
\* embedding model working, returns without error the sum of the counts
\* of the files under the root, at any depth, whose extension is .txt,
\* .md or .pdf in any case, and has stored the fragments of exactly these
\* files; directories and files of other extensions raise no error and
\* add nothing.
C9_DirectorySkipsAndSums ==
    (/\ last.op = "ingest_directory"
     /\ ModelWorked
     /\ \A p \in SupportedUnder(last.path) : FileDocuments[p].err = Ok)
        => /\ last.err = Ok
           /\ last.added = Fragments(SupportedUnder(last.path))
           /\ Count(_vector_store) = last.before + last.added
           /\ Stored = UNION {{FileDocuments[p].val[j] :
                                  j \in 1..Len(FileDocuments[p].val)} :
                              p \in SupportedUnder(last.path)}

C9_DirectorySkipsAndSums_Witness ==
    /\ last.op = "ingest_directory"
    /\ last.err = Ok
    /\ last.added = 3
    /\ \E p \in Descendants(last.path) :
           IsFile(p) /\ SuffixLower(p) \notin ClaimedExtensions
    /\ \E p \in Descendants(last.path) :
           ~IsFile(p) /\ SuffixLower(p) \in ClaimedExtensions
    /\ \E p \in SupportedUnder(last.path) : Len(p) > Len(last.path) + 1

\* The text load_file_as_documents splits.
RawText(path) ==
    IF SuffixLower(path) = ".pdf" THEN _read_pdf_file(path).val
    ELSE _read_text_file(path)

\* C10: the n fragments a successful ingest_path stores are the chunks of
\* the split in their order, with chunk_id 0, 1, ..., n-1 and the path of
\* the file relative to the knowledge root as source.
C10_SequentialChunkIds ==
    IngestedFile =>
        /\ Count(_vector_store) = last.before + last.added
        /\ last.added = Len(_split_text(RawText(last.path)))
        /\ \A j \in 1..last.added :
              /\ DocAt(_vector_store, last.before + j - 1).metadata.chunk_id = j - 1
              /\ DocAt(_vector_store, last.before + j - 1).metadata.source
                     = SubSeq(last.path, Len(KNOWLEDGE_DIR) + 1, Len(last.path))
              /\ DocAt(_vector_store, last.before + j - 1).page_content
                     = _split_text(RawText(last.path))[j]

\* Two sources share a chunk_id.
C10_SequentialChunkIds_Witness ==
    /\ IngestedFile
    /\ last.added > 1
    /\ \E i \in 0..(last.before - 1) :
           /\ DocAt(_vector_store, i).metadata.chunk_id
                  = DocAt(_vector_store, last.before).metadata.chunk_id
           /\ DocAt(_vector_store, i).metadata.source
                  # DocAt(_vector_store, last.before).metadata.source

\* The single paragraph of the specification, 2500 characters with no
\* separator, at the scale of the model.
SingleParagraph == Symbols(2500 \div Scale)

\* C11: every fragment _split_text returns is non-empty, not blank and at
\* most chunk_size long; the single paragraph of 2500 characters, split
\* with chunk_size 1000 and chunk_overlap 200 (all three at the scale of
\* the model), gives exactly 3 fragments, each after the first beginning
\* with the last chunk_overlap characters of the one before it.
C11_ChunkingWithOverlap ==
    (split_output # None) =>
        /\ \A j \in 1..Len(split_output) :
              /\ split_output[j] # <<>>
              /\ Strip(split_output[j]) # <<>>
              /\ Len(split_output[j]) <= CHUNK_SIZE \div Scale
        /\ (split_input = SingleParagraph) =>
              /\ Len(split_output) = 3
              /\ \A j \in 2..3 :
                    SubSeq(split_output[j], 1, CHUNK_OVERLAP \div Scale)
                        = SubSeq(split_output[j - 1],
                                 Len(split_output[j - 1])
                                     - CHUNK_OVERLAP \div Scale + 1,
                                 Len(split_output[j - 1]))

C11_ChunkingWithOverlap_Witness ==
    /\ split_input = SingleParagraph
    /\ split_output # None
    /\ Len(split_output) = 3
    /\ Len(split_output[1]) = CHUNK_SIZE \div Scale
    /\ split_output[2][1]
           = split_output[1][Len(split_output[1]) - CHUNK_OVERLAP \div Scale + 1]
    /\ split_output[3][Len(split_output[3])] = split_input[Len(split_input)]

\* Nothing can be loaded: the vector directory is missing, or what it
\* holds cannot be deserialized.
NothingToLoad == ~disk.exists \/ ~Loadable(disk.store)

\* C12 as stated: _load_vector_store never raises, and reports absence
\* when the vector directory is missing or cannot be deserialized; the
\* first access to the index then gives a new empty index, and no error
\* reaches the caller.
C12_LoadFailureSwallowed ==
    [][/\ \A env \in Envs :
             /\ _load_vector_store(State, env).err = Ok
             /\ NothingToLoad => _load_vector_store(State, env).val = NoStore
       /\ (NothingToLoad /\ _vector_store = NoStore /\ last'.op = "status")
             => /\ last'.err = Ok
                /\ _vector_store' # NoStore
                /\ Count(_vector_store') = 0
                /\ last'.info.doc_count = 0]_vars

\* The dimension probe succeeds: the embedding model is there or can be
\* constructed, and embeds the probe.
ProbeSucceeds(env) == _get_embeddings(State, env).err = Ok /\ env.embedOK

\* C13 as stated: the creation of a new empty index never fails; the
\* index has the length of the probe embedding as its dimension if the
\* probe succeeds, and the configured default if the embedding model
\* fails to load or to embed the probe; the dimension of the index never
\* changes afterwards.
C13_ProbeFallback ==
    [][/\ (NothingToLoad /\ _vector_store = NoStore)
             => \A env \in Envs :
                   /\ get_vector_store(State, env).err = Ok
                   /\ get_vector_store(State, env).val.d
                          = IF ProbeSucceeds(env)
                            THEN Len(embed_query(ProbeText))
                            ELSE DEFAULT_EMBED_DIM
       /\ (_vector_store # NoStore /\ _vector_store' # NoStore)
             => _vector_store'.d = _vector_store.d]_vars

\* A thread is inside a call of the embedding model.
Embedding(t) == threads[t].pc \in {"probing", "embed_query", "embed_documents"}

\* C14 as stated: under every interleaving of concurrent requests, the
\* dimension probe included, at most one embed_query or embed_documents
\* call is in progress on an embedding model at any time.
C14_EmbedMutualExclusion ==
    \A t1, t2 \in Threads :
        (t1 # t2 /\ Embedding(t1) /\ Embedding(t2))
            => threads[t1].emb # threads[t2].emb

\* A thread is between the start of its in-memory mutation and the end of
\* the write that saves it; a thread searches the index; a thread starts
\* to mutate the index.
InAddSave(t) == threads[t].pc \in {"docstore.add", "update", "save_local", "write"}
Searches(t) == threads[t].pc = "index.search" /\ threads'[t].pc = "idle"
Mutates(t) == threads[t].pc = "index.add" /\ threads'[t].pc = "docstore.add"

\* C15 as stated: while an add and the save that follows it are in
\* progress on an index, no search and no other add executes on it.
C15_SingleWriter ==
    [][\A t1, t2 \in Threads :
          (t1 # t2 /\ InAddSave(t1) /\ threads[t1].vs = threads[t2].vs)
              => ~(Searches(t2) \/ Mutates(t2))]_vars

\* get_vector_store() has returned an index to the handler of a thread.
Received(t) ==
    threads[t].pc \in {"get_vector_store_info", "embed_query", "index.search",
                       "embed_documents", "index.add", "docstore.add",
                       "update", "save_local", "write"}

\* C16 as stated: under every interleaving of first accesses, the process
\* constructs exactly one index and exactly one embedding model, and every
\* caller of get_vector_store receives the same index.
C16_Singleton ==
    /\ heap.embeddings <= 1
    /\ Len(heap.stores) <= 1
    /\ \A t1, t2 \in Threads :
          (Received(t1) /\ Received(t2)) => threads[t1].vs = threads[t2].vs

\* No ingest request is in progress.
Quiescent == \A t \in Threads : threads[t].op # "ingest"

\* C17 as stated: whenever no ingest is in progress, after ingests that
\* all succeeded and added at least one fragment, in any interleaving, the
\* saved index holds exactly the entries of the index in memory.
C17_EveryMutationFlushed ==
    (Quiescent /\ uuid > 0 /\ _vector_store # NoStore)
        => Entries(disk.store) = Entries(Deref(_vector_store).vs)

\* The ids of an index are 0 .. ntotal - 1.
Dense(vs) == DOMAIN vs.index_to_docstore_id = 0..(Len(vs.xb) - 1)

\* C18 as stated: after any adds, concurrent ones included, the ids of an
\* index are exactly 0 .. ntotal - 1, and an id maps to the same fragment
\* for the rest of the life of the index.
C18_DenseIds ==
    [][\A i \in 1..Len(heap.stores) :
          /\ Quiescent => Dense(heap.stores[i].vs)
          /\ \A k \in DOMAIN heap.stores[i].vs.index_to_docstore_id :
                /\ k \in DOMAIN heap'.stores[i].vs.index_to_docstore_id
                /\ heap'.stores[i].vs.index_to_docstore_id[k]
                      = heap.stores[i].vs.index_to_docstore_id[k]]_vars

\* C19: once the process holds the index, a query or a status request
\* leaves the index (its size, its dimension, its documents and ids) and
\* the vector directory as they were; and while the process lives, the
\* size of its index never decreases, whatever the requests.
C19_ReadsAreReadOnly ==
    [][/\ (_vector_store # NoStore /\ last'.op \in {"query", "status"})
             => /\ _vector_store' = _vector_store
                /\ disk' = disk
       /\ (_vector_store # NoStore /\ _vector_store' # NoStore)
             => /\ Count(_vector_store') >= Count(_vector_store)
                /\ _vector_store'.d = _vector_store.d]_vars

C19_ReadsAreReadOnly_Witness ==
    /\ last.op = "query"
    /\ last.err = Ok
    /\ Len(last.query.hits) > 0
    /\ last.before = Count(_vector_store)
    /\ Count(_vector_store) > 1
    /\ disk.store = _vector_store

====
